---- MODULE Spec2Model ----
(***************************************************************************)
(* A model of the Aegis language server (src/src/main.rs): the Backend     *)
(* with its RwLock-guarded symbol list, the document notifications that    *)
(* start validate_document, the completion request, and the two pure       *)
(* helpers parse_error_message and extract_symbols/analyze_instruction.    *)
(*                                                                         *)
(* Conventions.  An Option is a sequence of length 0 (None) or 1 (Some).   *)
(* A serde_json Value is a record tagged by t.  A &str message is the      *)
(* sequence of its one-character strings, indexed from 0 as in the source  *)
(* (element i of the source is element i+1 here).  A u32 is the pair       *)
(* [hi, lo] of its two 16-bit halves, so that the full 32-bit range is     *)
(* represented.  A panic unwinds out of the function that raised it: a     *)
(* function that may panic returns [panicked, ...].                        *)
(***************************************************************************)
EXTENDS Integers, Sequences, FiniteSets, TLC

VARIABLES
  symbols,     \* Backend.symbols: the Vec<CompletionItem> inside the RwLock
  writer,      \* the pass holding the RwLock write guard, 0 when none
  readers,     \* the completion requests holding a read guard
  passes,      \* every validate_document call started so far, in start order
  reqs,        \* every completion request received so far, in arrival order
  notified,    \* the number of did_open and did_change notifications handled
  published,   \* per URI, the Option of the diagnostics last handed to the client
  alive,       \* FALSE once a panic has taken the server down
  walkerIn,    \* the Value handed to extract_symbols (walker specification)
  walkerOut,   \* Option of its result
  locatorIn,   \* the message handed to parse_error_message (locator specification)
  locatorOut   \* Option of its result

vars == <<symbols, writer, readers, passes, reqs, notified, published, alive,
          walkerIn, walkerOut, locatorIn, locatorOut>>

serviceVars == <<symbols, writer, readers, passes, reqs, notified, published, alive>>

pureVars == <<walkerIn, walkerOut, locatorIn, locatorOut>>

(***************************************************************************)
(* Options and serde_json values                                           *)
(***************************************************************************)
None == <<>>

Some(v) == <<v>>

Str(s) == [t |-> "string", s |-> s]

Num(n) == [t |-> "number", n |-> n]

Arr(a) == [t |-> "array", a |-> a]

\* Value::as_str
as_str(v) == IF v.t = "string" THEN Some(v.s) ELSE None

\* Vec::get, slice indexing from 0
get(arr, i) == IF i < Len(arr) THEN Some(arr[i + 1]) ELSE None

\* arr.get(2).and_then(|v| v.as_str())
name_of(arr) == IF get(arr, 2) = None THEN None ELSE as_str(get(arr, 2)[1])

(***************************************************************************)
(* CompletionItem, with the fields the server sets                         *)
(***************************************************************************)
CompletionItem(label, kind, detail, insert_text, insert_text_format) ==
  [label |-> label, kind |-> kind, detail |-> detail,
   insert_text |-> insert_text, insert_text_format |-> insert_text_format]

VariableItem(name) == CompletionItem(name, "VARIABLE", Some("Variable"), None, None)

FunctionItemNoSnippet(name) == CompletionItem(name, "FUNCTION", Some("Function"), None, None)

FunctionItem(name) ==
  CompletionItem(name, "FUNCTION", Some("Function"), Some(name \o "($0)"), Some("SNIPPET"))

ClassItem(name) == CompletionItem(name, "CLASS", Some("Class"), None, None)

NamespaceItem(name) == CompletionItem(name, "MODULE", Some("Namespace"), None, None)

KeywordItem(k) == CompletionItem(k, "KEYWORD", None, None, None)

(***************************************************************************)
(* extract_symbols and analyze_instruction                                 *)
(***************************************************************************)
Returned(syms) == [panicked |-> FALSE, symbols |-> syms]

Panicked == [panicked |-> TRUE, symbols |-> <<>>]

RECURSIVE extract_symbols(_)
RECURSIVE analyze_instruction(_, _)
RECURSIVE extend_items(_, _, _)
RECURSIVE scan_args(_, _, _)

\* for item in arr { symbols.extend(self.extract_symbols(item)) }, from item i on
extend_items(arr, i, syms) ==
  IF i >= Len(arr) THEN Returned(syms)
  ELSE LET sub == extract_symbols(arr[i + 1])
       IN  IF sub.panicked THEN Panicked
           ELSE extend_items(arr, i + 1, syms \o sub.symbols)

\* for arg in &arr[2..] { extract_symbols(arg) ... symbols.push(s) }, from arg i on
scan_args(arr, i, syms) ==
  IF i >= Len(arr) THEN Returned(syms)
  ELSE LET sub == extract_symbols(arr[i + 1])
       IN  IF sub.panicked THEN Panicked
           ELSE scan_args(arr, i + 1, syms \o sub.symbols)

\* if let Some(body) = arr.get(i) { extract_symbols(body) ... symbols.push(s) }
recurse_body(arr, i, syms) ==
  IF get(arr, i) = None THEN Returned(syms)
  ELSE LET sub == extract_symbols(get(arr, i)[1])
       IN  IF sub.panicked THEN Panicked ELSE Returned(syms \o sub.symbols)

\* the slice &arr[2..] panics when 2 > arr.len()
SliceFromOutOfRange(arr, from) == from > Len(arr)

SetArm(arr, syms) ==
  IF name_of(arr) # None THEN Returned(Append(syms, VariableItem(name_of(arr)[1])))
  ELSE Returned(syms)

FunctionArmNoBody(arr, syms) ==
  IF name_of(arr) # None THEN Returned(Append(syms, FunctionItem(name_of(arr)[1])))
  ELSE Returned(syms)

FunctionArm(arr, syms) ==
  recurse_body(arr, 5,
     IF name_of(arr) # None THEN Append(syms, FunctionItem(name_of(arr)[1])) ELSE syms)

\* a faulty class arm: the members at the fourth element are walked
ClassArmWithMembers(arr, syms) ==
  recurse_body(arr, 3,
     IF name_of(arr) # None THEN Append(syms, ClassItem(name_of(arr)[1])) ELSE syms)

ClassArm(arr, syms) ==
  IF name_of(arr) # None THEN Returned(Append(syms, ClassItem(name_of(arr)[1])))
  ELSE Returned(syms)

NamespaceArmBodyFirst(arr, syms) ==
  LET r == recurse_body(arr, 3, syms)
  IN  IF r.panicked \/ name_of(arr) = None THEN r
      ELSE Returned(Append(r.symbols, NamespaceItem(name_of(arr)[1])))

NamespaceArm(arr, syms) ==
  recurse_body(arr, 3,
     IF name_of(arr) # None THEN Append(syms, NamespaceItem(name_of(arr)[1])) ELSE syms)

ControlArm(arr, syms) ==
  IF SliceFromOutOfRange(arr, 2) THEN Panicked ELSE scan_args(arr, 2, syms)

analyze_instruction(arr, syms) ==
  IF Len(arr) = 0 THEN Returned(syms)
  ELSE LET cmd == IF as_str(arr[1]) = None THEN "" ELSE as_str(arr[1])[1]
       IN  CASE cmd = "set" -> SetArm(arr, syms)
             [] cmd = "function" -> FunctionArm(arr, syms)
             [] cmd = "class" -> ClassArm(arr, syms)
             [] cmd = "namespace" -> NamespaceArm(arr, syms)
             [] cmd \in {"if", "while", "for_range"} -> ControlArm(arr, syms)
             [] OTHER -> Returned(syms)

extract_symbols(ast) ==
  IF ast.t = "array"
  THEN IF Len(ast.a) > 0 /\ ast.a[1].t = "string"
       THEN analyze_instruction(ast.a, <<>>)
       ELSE extend_items(ast.a, 0, <<>>)
  ELSE Returned(<<>>)

(***************************************************************************)
(* parse_error_message                                                     *)
(***************************************************************************)
LineOpen == <<"(", "L", "i", "n", "e", " ">>

LigneOpen == <<"[", "L", "i", "g", "n", "e", " ">>

DecimalDigits == <<"0", "1", "2", "3", "4", "5", "6", "7", "8", "9">>

IsDigit(c) == \E d \in 1..10 : DecimalDigits[d] = c

DigitValue(c) == (CHOOSE d \in 1..10 : DecimalDigits[d] = c) - 1

U32(hi, lo) == [hi |-> hi, lo |-> lo]

\* str::find: the byte offset of the first occurrence
find(msg, pat) ==
  LET hits == {i \in 0..Len(msg) :
                 i + Len(pat) <= Len(msg) /\ SubSeq(msg, i + 1, i + Len(pat)) = pat}
  IN  IF hits = {} THEN None ELSE Some(CHOOSE i \in hits : \A j \in hits : i <= j)

\* a mutant of find: the offset of the last occurrence (rfind)
rfind(msg, pat) ==
  LET hits == {i \in 0..Len(msg) :
                 i + Len(pat) <= Len(msg) /\ SubSeq(msg, i + 1, i + Len(pat)) = pat}
  IN  IF hits = {} THEN None ELSE Some(CHOOSE i \in hits : \A j \in hits : i >= j)

\* &msg[from..]
slice_from(msg, from) == SubSeq(msg, from + 1, Len(msg))

\* &msg[from..to] panics when from > to or to > msg.len()
SliceOutOfRange(msg, from, to) == from > to \/ to > Len(msg)

slice(msg, from, to) == SubSeq(msg, from + 1, to)

RECURSIVE accumulate(_, _, _)
\* the digit loop of u32::from_str: checked_mul(10) then checked_add(digit)
accumulate(digits, i, acc) ==
  IF i > Len(digits) THEN Some(acc)
  ELSE LET lo10 == acc.lo * 10 + DigitValue(digits[i])
           hi10 == acc.hi * 10 + (lo10 \div 65536)
       IN  IF hi10 >= 65536 THEN None
           ELSE accumulate(digits, i + 1, U32(hi10, lo10 % 65536))

\* str::parse::<u32>: an optional '+', then one or more decimal digits, no overflow
parse_u32(s) ==
  IF Len(s) = 0 THEN None
  ELSE LET digits == IF s[1] = "+" THEN Tail(s) ELSE s
       IN  IF Len(digits) = 0 \/ \E i \in 1..Len(digits) : ~IsDigit(digits[i])
           THEN None
           ELSE accumulate(digits, 1, U32(0, 0))

\* a mutant of saturating_sub: wrapping_sub(1)
wrapping_sub_1(n) ==
  IF n.lo > 0 THEN U32(n.hi, n.lo - 1)
  ELSE IF n.hi > 0 THEN U32(n.hi - 1, 65535)
  ELSE U32(65535, 65535)

\* n.saturating_sub(1)
saturating_sub_1(n) ==
  IF n.lo > 0 THEN U32(n.hi, n.lo - 1)
  ELSE IF n.hi > 0 THEN U32(n.hi - 1, 65535)
  ELSE U32(0, 0)

Range(line) ==
  [start |-> [line |-> line, character |-> 0],
   end |-> [line |-> line, character |-> 100]]

Diagnostic(line, msg) ==
  [range |-> Range(line), severity |-> "ERROR", source |-> "Aegis Compiler",
   message |-> msg]

Located(line, msg) == [panicked |-> FALSE, diagnostic |-> Diagnostic(line, msg)]

LocatorPanicked == [panicked |-> TRUE, diagnostic |-> Diagnostic(U32(0, 0), <<>>)]

\* one arm of the marker chain: start is the offset of the opening marker,
\* width its length (6 or 7) and close the closing delimiter
MarkerArm(msg, start, width, close) ==
  LET end == find(slice_from(msg, start), <<close>>)
  IN  IF end = None THEN Located(U32(0, 0), msg)
      ELSE IF SliceOutOfRange(msg, start + width, start + end[1]) THEN LocatorPanicked
      ELSE LET n == parse_u32(slice(msg, start + width, start + end[1]))
           IN  IF n = None THEN Located(U32(0, 0), msg)
               ELSE Located(saturating_sub_1(n[1]), msg)

\* a faulty marker chain: "[Ligne " is tried before "(Line "
parse_error_message_ligne_first(msg) ==
  IF find(msg, LigneOpen) # None
  THEN MarkerArm(msg, find(msg, LigneOpen)[1], 7, "]")
  ELSE IF find(msg, LineOpen) # None
  THEN MarkerArm(msg, find(msg, LineOpen)[1], 6, ")")
  ELSE Located(U32(0, 0), msg)

parse_error_message(msg) ==
  IF find(msg, LineOpen) # None
  THEN MarkerArm(msg, find(msg, LineOpen)[1], 6, ")")
  ELSE IF find(msg, LigneOpen) # None
  THEN MarkerArm(msg, find(msg, LigneOpen)[1], 7, "]")
  ELSE Located(U32(0, 0), msg)

(***************************************************************************)
(* The trees and messages the pure helpers are applied to                  *)
(***************************************************************************)
MaxLen == 6

Tags == {"set", "function", "class", "namespace", "if", "while", "for_range", "call"}

SetX == Arr(<<Str("set"), Num(3), Str("x"), Arr(<<Str("literal"), Num(1)>>)>>)

SetY == Arr(<<Str("set"), Num(3), Str("y"), Num(0)>>)

FunctionAdd ==
  Arr(<<Str("function"), Num(2), Str("add"), Arr(<<>>), Str("int"), SetY>>)

NamespaceShapes ==
  Arr(<<Str("namespace"), Num(1), Str("Shapes"),
        Arr(<<Arr(<<Str("class"), Num(2), Str("Circle")>>)>>)>>)

IfBoth ==
  Arr(<<Str("if"), Num(1), Arr(<<Str("var"), Num(1), Str("c")>>),
        Arr(<<Arr(<<Str("set"), Num(2), Str("z"), Num(0)>>)>>),
        Arr(<<Arr(<<Str("set"), Num(3), Str("w"), Num(0)>>)>>)>>)

BareIf == Arr(<<Str("if")>>)

TwiceZ ==
  Arr(<<Arr(<<Str("set"), Num(2), Str("z"), Num(0)>>),
        Arr(<<Str("class"), Num(2), Str("z")>>),
        Arr(<<Str("set"), Num(2), Str("z"), Num(0)>>)>>)

Bodies == {Arr(<<>>), Num(0), SetY, TwiceZ, NamespaceShapes, BareIf}

NameArgs == {Str("x"), Str("if"), Num(0)}

\* element i (from 1) of an instruction with the given tag, name and sub-trees
Element(tag, name, b1, b2, i) ==
  CASE i = 1 -> Str(tag)
    [] i = 2 -> Num(1)
    [] i = 3 -> name
    [] i = 5 -> Str("int")
    [] i = 6 -> b2
    [] OTHER -> b1

Instruction(tag, name, b1, b2, len) ==
  Arr([i \in 1..len |-> Element(tag, name, b1, b2, i)])

Instructions ==
  {Instruction(tag, name, b1, b2, len) :
     tag \in Tags, name \in NameArgs, b1 \in Bodies, b2 \in Bodies, len \in 1..MaxLen}

WalkerTrees ==
  Instructions
    \cup {Arr(<<i, SetX>>) : i \in Instructions}
    \cup {SetX, FunctionAdd, NamespaceShapes, IfBoth, BareIf, TwiceZ,
          Arr(<<>>), Num(0), Str("set")}

Prefixes ==
  {<<>>, <<"E", " ">>, <<")", "]">>, LineOpen,
   LineOpen \o <<"x", ")", " ">>, LigneOpen \o <<"3", "]", " ">>}

Openers == {<<>>, LineOpen, LigneOpen}

NumStrs ==
  {<<>>, <<"7">>, <<"0">>, <<"1">>, <<"1", "0">>, <<"0", "7">>, <<"+", "7">>,
   <<"+">>, <<"-", "1">>, <<" ", "7">>, <<"x">>,
   <<"4", "2", "9", "4", "9", "6", "7", "2", "9", "5">>,
   <<"4", "2", "9", "4", "9", "6", "7", "2", "9", "6">>,
   <<"9", "9", "9", "9", "9", "9", "9", "9", "9", "9", "9">>}

Closers == {<<>>, <<")">>, <<"]">>}

Suffixes == {<<>>, <<" ", "e">>, <<")">>, LineOpen \o <<"9", ")">>}

MessageParts ==
  [prefix : Prefixes, open : Openers, num : NumStrs, close : Closers,
   suffix : Suffixes]

Message(parts) ==
  parts.prefix \o parts.open \o parts.num \o parts.close \o parts.suffix

(***************************************************************************)
(* The walker and the locator applied to one input                         *)
(***************************************************************************)
ServiceIdle ==
  /\ symbols = <<>>
  /\ writer = 0
  /\ readers = {}
  /\ passes = <<>>
  /\ reqs = <<>>
  /\ notified = 0
  /\ published = <<>>
  /\ alive = TRUE

InitWalker ==
  /\ ServiceIdle
  /\ walkerIn \in WalkerTrees
  /\ walkerOut = None
  /\ locatorIn = [prefix |-> <<>>, open |-> <<>>, num |-> <<>>, close |-> <<>>,
                  suffix |-> <<>>]
  /\ locatorOut = None

Walk ==
  /\ walkerOut = None
  /\ walkerOut' = Some(extract_symbols(walkerIn))
  /\ UNCHANGED <<walkerIn, locatorIn, locatorOut>>
  /\ UNCHANGED serviceVars

SpecWalker == InitWalker /\ [][Walk]_vars

InitLocator ==
  /\ ServiceIdle
  /\ walkerIn = Num(0)
  /\ walkerOut = None
  /\ locatorIn \in MessageParts
  /\ locatorOut = None

Locate ==
  /\ locatorOut = None
  /\ locatorOut' = Some(parse_error_message(Message(locatorIn)))
  /\ UNCHANGED <<walkerIn, walkerOut, locatorIn>>
  /\ UNCHANGED serviceVars

SpecLocator == InitLocator /\ [][Locate]_vars

(***************************************************************************)
(* The server: inputs                                                      *)
(***************************************************************************)
MaxNotifications == 2

MaxRequests == 1

MaxOpened == 1

MaxCompletions == 2

Uris == {"file:///a.aegis", "file:///b.aegis"}

Texts == {"t1", "t2"}

\* params.content_changes of a did_change notification
ChangeLists ==
  {<<>>} \cup {<<a>> : a \in Texts} \cup {<<a, b>> : a \in Texts, b \in Texts}

\* a namespace and a variable both named like the keyword "if", and a class
ShadowIf ==
  Arr(<<Str("namespace"), Num(1), Str("if"),
        Arr(<<Arr(<<Str("set"), Num(2), Str("if"), Num(0)>>),
              Arr(<<Str("class"), Num(3), Str("Circle")>>)>>)>>)

ServiceTrees == {Arr(<<>>), ShadowIf, BareIf}

\* "E (Line 7)", an error of the compiler
CompilerMessages == {<<"E", " ">> \o LineOpen \o <<"7", ")">>}

\* "[Ligne 1] E", an error of the loader
LoaderMessages == {LigneOpen \o <<"1", "]", " ", "E">>}

\* what aegis_core::compiler::compile may return: Ok(json_ast) or Err(e)
CompileResults ==
  {[ok |-> TRUE, ast |-> a] : a \in ServiceTrees}
    \cup {[ok |-> FALSE, e |-> m] : m \in CompilerMessages}

\* what aegis_core::loader::parse_block may return: Ok(()) or Err(e)
LoaderResults == {[ok |-> TRUE]} \cup {[ok |-> FALSE, e |-> m] : m \in LoaderMessages}

(***************************************************************************)
(* The server: state                                                       *)
(***************************************************************************)
\* Backend { client, symbols: RwLock::new(Vec::new()) }
Init ==
  /\ symbols = <<>>
  /\ writer = 0
  /\ readers = {}
  /\ passes = <<>>
  /\ reqs = <<>>
  /\ notified = 0
  /\ published = [u \in Uris |-> None]
  /\ alive = TRUE
  /\ walkerIn = Num(0)
  /\ walkerOut = None
  /\ locatorIn = [prefix |-> <<>>, open |-> <<>>, num |-> <<>>, close |-> <<>>,
                  suffix |-> <<>>]
  /\ locatorOut = None

\* a call of validate_document(uri, text), at its first statement.  text is held
\* until compile(&text) has read it, its only use.  sequential records whether
\* every earlier call had returned when this one was made; compiled, ast, walked,
\* replaced, loaded and pubs record what the call has done so far, and latest
\* whether its replace is the most recent one.
NewPass(uri, text) ==
  [uri |-> uri, text |-> Some(text), pc |-> "compile", compiled |-> "none",
   ast |-> None, walked |-> FALSE, found |-> <<>>, replaced |-> FALSE,
   latest |-> FALSE, loaded |-> "none",
   diagnostics |-> <<>>, pubs |-> 0,
   sequential |-> \A q \in 1..Len(passes) : passes[q].pc \in {"done", "panicked"}]

Ended(p) == passes[p].pc \in {"done", "panicked"}

(***************************************************************************)
(* did_open, did_change                                                    *)
(***************************************************************************)
did_open(uri, text) ==
  /\ alive
  /\ notified' = notified + 1
  /\ passes' = Append(passes, NewPass(uri, text))
  /\ UNCHANGED <<symbols, writer, readers, reqs, published, alive>>
  /\ UNCHANGED pureVars

\* the text did_change hands to validate_document: content_changes.into_iter().next()
first_change(content_changes) ==
  IF Len(content_changes) > 0 THEN Some(content_changes[1]) ELSE None

did_change(uri, content_changes) ==
  /\ alive
  /\ notified' = notified + 1
  /\ passes' = IF first_change(content_changes) # None
               THEN Append(passes, NewPass(uri, first_change(content_changes)[1]))
               ELSE passes
  /\ UNCHANGED <<symbols, writer, readers, reqs, published, alive>>
  /\ UNCHANGED pureVars

(***************************************************************************)
(* validate_document, one step per statement that other tasks can observe  *)
(***************************************************************************)
\* a mutant of push_diagnostic: the error is pushed twice
push_twice(diagnostics, d) == Append(Append(diagnostics, d), d)

\* diagnostics.push(self.parse_error_message(&e))
push_diagnostic(diagnostics, d) == Append(diagnostics, d)

\* a mutant of replace: the found symbols are appended to the old ones
replace_extend(old, found_symbols) == old \o found_symbols

\* a mutant of replace: the index keeps its contents
replace_skip(old, found_symbols) == old

\* *write_guard = found_symbols
replace(old, found_symbols) == found_symbols

\* match compiler::compile(&text): the Err arm
CompileErr(p, e) ==
  LET d == parse_error_message(e)
  IN  IF d.panicked
      THEN /\ passes' = [passes EXCEPT ![p].pc = "panicked", ![p].compiled = "err",
                           ![p].text = None]
           /\ alive' \in BOOLEAN
      ELSE /\ passes' = [passes EXCEPT ![p].pc = "publish", ![p].compiled = "err",
                           ![p].text = None,
                           ![p].diagnostics = push_diagnostic(@, d.diagnostic)]
           /\ alive' = alive

\* a faulty Ok arm: the loader is invoked before the index is replaced
CompileOkLoaderFirst(p, json_ast) ==
  /\ passes' = [passes EXCEPT ![p].pc = "load", ![p].compiled = "ok",
                  ![p].text = None,
                  ![p].ast = Some(json_ast), ![p].walked = TRUE]
  /\ alive' = alive

\* match compiler::compile(&text): the Ok arm up to extract_symbols.  A panic of
\* the walker unwinds out of validate_document and out of the handler; whether
\* the server outlives it is decided outside this source.
CompileOk(p, json_ast) ==
  LET w == extract_symbols(json_ast)
  IN  IF w.panicked
      THEN /\ passes' = [passes EXCEPT ![p].pc = "panicked", ![p].compiled = "ok",
                           ![p].text = None,
                           ![p].ast = Some(json_ast), ![p].walked = TRUE]
           /\ alive' \in BOOLEAN
      ELSE /\ passes' = [passes EXCEPT ![p].pc = "lock", ![p].compiled = "ok",
                           ![p].text = None,
                           ![p].ast = Some(json_ast), ![p].walked = TRUE,
                           ![p].found = w.symbols]
           /\ alive' = alive

Compile(p) ==
  /\ alive
  /\ p \in 1..Len(passes)
  /\ passes[p].pc = "compile"
  /\ \E r \in CompileResults :
       IF r.ok THEN CompileOk(p, r.ast) ELSE CompileErr(p, r.e)
  /\ UNCHANGED <<symbols, writer, readers, reqs, notified, published>>
  /\ UNCHANGED pureVars

\* a faulty RwLock::write: granted while read guards are held
write_granted_over_readers == writer = 0

\* RwLock::write returns when no guard is held
write_granted == writer = 0 /\ readers = {}

\* a faulty RwLock::read: granted while the write guard is held
read_granted_always == TRUE

\* RwLock::read returns when no write guard is held
read_granted == writer = 0

\* self.symbols.write()
WriteLock(p) ==
  /\ alive
  /\ p \in 1..Len(passes)
  /\ passes[p].pc = "lock"
  /\ write_granted
  /\ writer' = p
  /\ passes' = [passes EXCEPT ![p].pc = "store"]
  /\ UNCHANGED <<symbols, readers, reqs, notified, published, alive>>
  /\ UNCHANGED pureVars

\* the Vec while *write_guard = found_symbols is under way: the first half of
\* the new elements is in place, the second half of the old ones not yet gone
half_stored(old, found_symbols) ==
  SubSeq(found_symbols, 1, Len(found_symbols) \div 2)
    \o SubSeq(old, Len(old) \div 2 + 1, Len(old))

\* *write_guard = found_symbols begins, under the write guard
Store(p) ==
  /\ alive
  /\ p \in 1..Len(passes)
  /\ passes[p].pc = "store"
  /\ writer = p
  /\ symbols' = half_stored(symbols, passes[p].found)
  /\ passes' = [passes EXCEPT ![p].pc = "assign"]
  /\ UNCHANGED <<writer, readers, reqs, notified, published, alive>>
  /\ UNCHANGED pureVars

\* *write_guard = found_symbols is complete; the guard is dropped at the end of
\* the block
Assign(p) ==
  /\ alive
  /\ p \in 1..Len(passes)
  /\ passes[p].pc = "assign"
  /\ writer = p
  /\ symbols' = replace(symbols, passes[p].found)
  /\ writer' = 0
  /\ passes' = [q \in 1..Len(passes) |->
                  IF q = p
                  THEN [passes[q] EXCEPT !.pc = "load", !.found = <<>>,
                                         !.replaced = TRUE, !.latest = TRUE]
                  ELSE [passes[q] EXCEPT !.latest = FALSE]]
  /\ UNCHANGED <<readers, reqs, notified, published, alive>>
  /\ UNCHANGED pureVars

\* if let Err(e) = loader::parse_block(&json_ast) { diagnostics.push(...) }
LoadErr(p, e) ==
  LET d == parse_error_message(e)
  IN  IF d.panicked
      THEN /\ passes' = [passes EXCEPT ![p].pc = "panicked", ![p].loaded = "err"]
           /\ alive' \in BOOLEAN
      ELSE /\ passes' = [passes EXCEPT ![p].pc = "publish", ![p].loaded = "err",
                           ![p].diagnostics = push_diagnostic(@, d.diagnostic)]
           /\ alive' = alive

LoadOk(p) ==
  /\ passes' = [passes EXCEPT ![p].pc = "publish", ![p].loaded = "ok"]
  /\ alive' = alive

Load(p) ==
  /\ alive
  /\ p \in 1..Len(passes)
  /\ passes[p].pc = "load"
  /\ \E r \in LoaderResults : IF r.ok THEN LoadOk(p) ELSE LoadErr(p, r.e)
  /\ UNCHANGED <<symbols, writer, readers, reqs, notified, published>>
  /\ UNCHANGED pureVars

\* a faulty publish_diagnostics: the list is shown for every document
publish_for_all(uri, diagnostics) == [u \in Uris |-> Some(diagnostics)]

\* client.publish_diagnostics(uri, diagnostics, None): what the client then shows
publish_diagnostics(uri, diagnostics) ==
  [published EXCEPT ![uri] = Some(diagnostics)]

\* self.client.publish_diagnostics(uri, diagnostics, None).await
Publish(p) ==
  /\ alive
  /\ p \in 1..Len(passes)
  /\ passes[p].pc = "publish"
  /\ published' = publish_diagnostics(passes[p].uri, passes[p].diagnostics)
  /\ passes' = [passes EXCEPT ![p].pc = "done", ![p].pubs = @ + 1]
  /\ UNCHANGED <<symbols, writer, readers, reqs, notified, alive>>
  /\ UNCHANGED pureVars

(***************************************************************************)
(* completion                                                              *)
(***************************************************************************)
keywords ==
  <<"var", "func", "if", "else", "while", "for", "return", "class", "new",
    "import", "try", "catch", "namespace", "true", "false", "null">>

\* keywords.into_iter().map(|k| CompletionItem { label: k, kind: KEYWORD, .. })
keyword_items == [i \in 1..Len(keywords) |-> KeywordItem(keywords[i])]

\* a mutant of extend: symbols whose label is already listed are left out
extend_dedup(items, guarded) ==
  items \o SelectSeq(guarded,
                     LAMBDA s : \A i \in 1..Len(items) : items[i].label # s.label)

\* items.extend(read_guard.clone())
extend(items, guarded) == items \o guarded

\* the number of replaces of the index completed so far
Replaces == Cardinality({p \in 1..Len(passes) : passes[p].replaced})

\* the passes that have published and returned
ReturnedPasses == {p \in 1..Len(passes) : passes[p].pc = "done"}

\* a completion request, its parameters (document and cursor position) unused:
\* the keyword items are built and self.symbols.read() returns.  uri records the
\* document the request named and, once the response is built, epoch how many
\* replaces had been completed by then and after which passes had returned.
completion(uri, position) ==
  /\ alive
  /\ read_granted
  /\ readers' = readers \cup {Len(reqs) + 1}
  /\ reqs' = Append(reqs, [pc |-> "extend", uri |-> uri, items |-> keyword_items,
                           response |-> None, epoch |-> 0, after |-> {}])
  /\ UNCHANGED <<symbols, writer, passes, notified, published, alive>>
  /\ UNCHANGED pureVars

\* a faulty completion: the symbols are moved out of the index, not cloned
RespondDraining(r) ==
  /\ alive
  /\ r \in 1..Len(reqs)
  /\ reqs[r].pc = "extend"
  /\ r \in readers
  /\ readers' = readers \ {r}
  /\ reqs' = [reqs EXCEPT ![r].pc = "done", ![r].items = <<>>,
                          ![r].response = Some(extend(reqs[r].items, symbols)),
                          ![r].epoch = Replaces, ![r].after = ReturnedPasses]
  /\ symbols' = <<>>
  /\ UNCHANGED <<writer, passes, notified, published, alive>>
  /\ UNCHANGED pureVars

\* items.extend(read_guard.clone()), the guard dropped, Ok(Some(Array(items)))
Respond(r) ==
  /\ alive
  /\ r \in 1..Len(reqs)
  /\ reqs[r].pc = "extend"
  /\ r \in readers
  /\ readers' = readers \ {r}
  /\ reqs' = [reqs EXCEPT ![r].pc = "done", ![r].items = <<>>,
                          ![r].response = Some(extend(reqs[r].items, symbols)),
                          ![r].epoch = Replaces, ![r].after = ReturnedPasses]
  /\ UNCHANGED <<symbols, writer, passes, notified, published, alive>>
  /\ UNCHANGED pureVars

(***************************************************************************)
(* The server                                                              *)
(***************************************************************************)
\* CompletionParams.position
Positions == {0, 1}

\* the one document of a client that edits a single file
Edited == {"file:///a.aegis"}

\* the server with one document, opened and changed, and its completion requests
Next ==
  \/ /\ notified < MaxNotifications
     /\ \E uri \in Edited, text \in Texts : did_open(uri, text)
  \/ /\ notified < MaxNotifications
     /\ \E uri \in Edited, content_changes \in ChangeLists :
          did_change(uri, content_changes)
  \/ \E p \in 1..Len(passes) : Compile(p)
  \/ \E p \in 1..Len(passes) : WriteLock(p)
  \/ \E p \in 1..Len(passes) : Store(p)
  \/ \E p \in 1..Len(passes) : Assign(p)
  \/ \E p \in 1..Len(passes) : Load(p)
  \/ \E p \in 1..Len(passes) : Publish(p)
  \/ /\ Len(reqs) < MaxRequests
     /\ \E uri \in Edited, position \in Positions : completion(uri, position)
  \/ \E r \in 1..Len(reqs) : Respond(r)

Spec == Init /\ [][Next]_vars

\* the server with two documents, opened but not changed, and completion
\* requests that name either
NextCompletion ==
  \/ /\ notified < MaxOpened
     /\ \E uri \in Uris, text \in Texts : did_open(uri, text)
  \/ \E p \in 1..Len(passes) : Compile(p)
  \/ \E p \in 1..Len(passes) : WriteLock(p)
  \/ \E p \in 1..Len(passes) : Store(p)
  \/ \E p \in 1..Len(passes) : Assign(p)
  \/ \E p \in 1..Len(passes) : Load(p)
  \/ \E p \in 1..Len(passes) : Publish(p)
  \/ /\ Len(reqs) < MaxCompletions
     /\ \E uri \in Uris, position \in Positions : completion(uri, position)
  \/ \E r \in 1..Len(reqs) : Respond(r)

SpecCompletion == Init /\ [][NextCompletion]_vars

(***************************************************************************)
(* Properties of validate_document                                         *)
(***************************************************************************)
Pass(p) == passes[p]

\* pass p takes the step from pc value from to pc value to
Steps(p, from, to) == passes[p].pc = from /\ passes'[p].pc = to

\* C1: every analysis pass that has ended, however it ended and whatever tree
\* the compiler gave it, has published diagnostics exactly once.
C1_EndedPassPublishedOnce ==
  \A p \in 1..Len(passes) : Ended(p) => Pass(p).pubs = 1

\* C2: a pass whose compile returned Err never runs the walker or the loader,
\* holds exactly one diagnostic, the one parse_error_message builds from the
\* compiler's message, publishes exactly that list, and none of its steps
\* changes the symbol index.
C2_CompileErrorPass ==
  [][\A p \in 1..Len(passes') :
       passes'[p].compiled = "err" =>
         /\ ~passes'[p].walked
         /\ passes'[p].ast = None
         /\ ~passes'[p].replaced
         /\ passes'[p].loaded = "none"
         /\ passes'[p].pc \in {"publish", "done"}
         /\ Len(passes'[p].diagnostics) = 1
         /\ passes'[p].diagnostics[1].message \in CompilerMessages
         /\ passes'[p].diagnostics[1] =
              parse_error_message(passes'[p].diagnostics[1].message).diagnostic
         /\ passes'[p].pc = "done" => passes'[p].pubs = 1
         /\ passes'[p] # passes[p] =>
              /\ symbols' = symbols
              /\ writer' = writer
              /\ passes'[p].pc = "done" =>
                   published'[passes[p].uri] = Some(passes'[p].diagnostics)
    ]_vars

\* C2 witness: a pass whose compile failed has published while the index held
\* the symbols of an earlier pass.
C2_Witness ==
  \E p \in 1..Len(passes) :
    /\ Pass(p).compiled = "err"
    /\ Pass(p).pc = "done"
    /\ Len(symbols) = 3
    /\ published[Pass(p).uri] = Some(Pass(p).diagnostics)

\* C3: a pass whose compile succeeded replaces the index by the walker's output
\* for its tree before the loader runs; when the loader then returns Err the
\* pass publishes exactly one diagnostic, built from the loader's message;
\* when the loader returns Ok it publishes the empty list; no pass publishes
\* more than one diagnostic.
C3_ValidationErrorPass ==
  [][\A p \in 1..Len(passes) :
       /\ Steps(p, "assign", "load") =>
            symbols' = extract_symbols(Pass(p).ast[1]).symbols
       /\ passes'[p].loaded # "none" => passes'[p].replaced
       /\ Steps(p, "publish", "done") =>
            /\ published'[Pass(p).uri] # None
            /\ LET sent == published'[Pass(p).uri][1]
               IN  /\ Len(sent) <= 1
                   /\ Pass(p).loaded = "ok" => sent = <<>>
                   /\ Pass(p).loaded = "err" =>
                        /\ Len(sent) = 1
                        /\ sent[1].message \in LoaderMessages
                        /\ sent[1] = parse_error_message(sent[1].message).diagnostic
    ]_vars

\* C3 witness: a pass whose loader failed has published one diagnostic and the
\* index holds the three symbols of its tree.
C3_Witness ==
  \E p \in 1..Len(passes) :
    /\ Pass(p).loaded = "err"
    /\ Pass(p).pc = "done"
    /\ Pass(p).ast = Some(ShadowIf)
    /\ symbols = extract_symbols(ShadowIf).symbols
    /\ Len(symbols) = 3
    /\ published[Pass(p).uri] = Some(Pass(p).diagnostics)
    /\ Len(Pass(p).diagnostics) = 1

\* the passes whose compile returned Ok
Compiled == {p \in 1..Len(passes) : Pass(p).compiled = "ok"}

\* every pass has ended and none was started while another was running
RanOneAfterAnother ==
  \A p \in 1..Len(passes) : Ended(p) /\ Pass(p).sequential

\* C4: after passes run one after another, the index is the walker's output
\* for the tree of the most recent pass whose compile succeeded, and empty when
\* there is none.
C4_IndexIsLastCompiledTree ==
  RanOneAfterAnother =>
    IF Compiled = {} THEN symbols = <<>>
    ELSE LET last == CHOOSE p \in Compiled : \A q \in Compiled : q <= p
             w == extract_symbols(Pass(last).ast[1])
         IN  ~w.panicked /\ symbols = w.symbols

(***************************************************************************)
(* Properties of completion                                                *)
(***************************************************************************)
FixedKeywords ==
  <<"var", "func", "if", "else", "while", "for", "return", "class", "new",
    "import", "try", "catch", "namespace", "true", "false", "null">>

\* C5: every completion response is the sixteen keywords, in the fixed order,
\* followed by the index as it is when the response is built, whole and in
\* order: its length is 16 plus the length of the index.
C5_KeywordsThenIndex ==
  [][\A r \in 1..Len(reqs) :
       (reqs[r].response = None /\ reqs'[r].response # None) =>
         LET items == reqs'[r].response[1]
         IN  /\ Len(items) = 16 + Len(symbols)
             /\ \A i \in 1..16 :
                  /\ items[i].label = FixedKeywords[i]
                  /\ items[i].kind = "KEYWORD"
             /\ \A i \in 1..Len(symbols) : items[16 + i] = symbols[i]
    ]_vars

\* C5 witness: a response of nineteen items whose symbols are named "if", "if"
\* and "Circle".
C5_Witness ==
  \E r \in 1..Len(reqs) :
    /\ reqs[r].response # None
    /\ Len(reqs[r].response[1]) = 19
    /\ reqs[r].response[1][3].label = "if"
    /\ reqs[r].response[1][17].label = "if"
    /\ reqs[r].response[1][18].label = "if"
    /\ reqs[r].response[1][19].label = "Circle"

(***************************************************************************)
(* Properties of extract_symbols                                           *)
(***************************************************************************)
\* C6: the walker returns a descriptor sequence for every tree; it never fails.
C6_WalkerNeverFails ==
  walkerOut # None => ~walkerOut[1].panicked

\* name and kind of the declaration an instruction makes, if it makes one
OwnDeclaration(a) ==
  IF Len(a) >= 3 /\ a[3].t = "string"
  THEN CASE a[1].s = "set" -> <<[label |-> a[3].s, kind |-> "VARIABLE"]>>
         [] a[1].s = "function" -> <<[label |-> a[3].s, kind |-> "FUNCTION"]>>
         [] a[1].s = "class" -> <<[label |-> a[3].s, kind |-> "CLASS"]>>
         [] a[1].s = "namespace" -> <<[label |-> a[3].s, kind |-> "MODULE"]>>
         [] OTHER -> <<>>
  ELSE <<>>

RECURSIVE Declarations(_)
RECURSIVE DeclarationsFrom(_, _)

\* the declarations of elements i, i+1, ... of a sequence, left to right
DeclarationsFrom(a, i) ==
  IF i > Len(a) THEN <<>> ELSE Declarations(a[i]) \o DeclarationsFrom(a, i + 1)

\* the declarations reachable in a tree through sibling lists, function bodies,
\* namespace bodies and control constructs, each before those of its body
Declarations(v) ==
  IF v.t # "array" \/ Len(v.a) = 0 THEN <<>>
  ELSE IF v.a[1].t # "string" THEN DeclarationsFrom(v.a, 1)
  ELSE OwnDeclaration(v.a) \o
       CASE v.a[1].s = "function" /\ Len(v.a) >= 6 -> Declarations(v.a[6])
         [] v.a[1].s = "namespace" /\ Len(v.a) >= 4 -> Declarations(v.a[4])
         [] v.a[1].s \in {"if", "while", "for_range"} -> DeclarationsFrom(v.a, 3)
         [] OTHER -> <<>>

\* C8: whenever the walker returns, its output lists exactly the declarations
\* reachable in the tree, in pre-order and left to right, repeated names kept;
\* for the namespace Shapes holding the class Circle it is Shapes, then Circle.
C8_PreOrderDeclarations ==
  (walkerOut # None /\ ~walkerOut[1].panicked) =>
    LET out == walkerOut[1].symbols
    IN  /\ [i \in 1..Len(out) |-> [label |-> out[i].label, kind |-> out[i].kind]]
             = Declarations(walkerIn)
        /\ walkerIn = NamespaceShapes =>
             /\ Len(out) = 2
             /\ out[1].label = "Shapes" /\ out[1].detail = Some("Namespace")
             /\ out[2].label = "Circle" /\ out[2].detail = Some("Class")

\* C8 witness: a namespace named x whose body declares z, z and z again, next
\* to a sibling set: the walker has returned x, z, z, z, x.
C8_Witness ==
  /\ walkerIn = Arr(<<Instruction("namespace", Str("x"), TwiceZ, TwiceZ, 4), SetX>>)
  /\ walkerOut # None
  /\ ~walkerOut[1].panicked
  /\ [i \in 1..Len(walkerOut[1].symbols) |-> walkerOut[1].symbols[i].label]
       = <<"x", "z", "z", "z", "x">>

(***************************************************************************)
(* Properties of parse_error_message                                       *)
(***************************************************************************)
Contains(msg, pat) ==
  \E i \in 1..Len(msg) :
    i + Len(pat) - 1 <= Len(msg) /\ SubSeq(msg, i, i + Len(pat) - 1) = pat

\* the line of the diagnostic parse_error_message has built
LocatedLine == locatorOut[1].diagnostic.range.start.line

\* C7 as stated: any message containing "(Line 7)" gives line 6, any message
\* containing "[Ligne 1]" gives 0, "(Line 0)" gives 0, no marker gives 0.
C7_AnyMessageContaining ==
  locatorOut # None =>
    LET msg == Message(locatorIn)
    IN  /\ ~locatorOut[1].panicked
        /\ Contains(msg, LineOpen \o <<"7", ")">>) => LocatedLine = U32(0, 6)
        /\ Contains(msg, LigneOpen \o <<"1", "]">>) => LocatedLine = U32(0, 0)
        /\ Contains(msg, LineOpen \o <<"0", ")">>) => LocatedLine = U32(0, 0)
        /\ (~Contains(msg, LineOpen) /\ ~Contains(msg, LigneOpen)) =>
             LocatedLine = U32(0, 0)

\* max(N - 1, 0) for the decimal numerals N of the messages that fit 32 bits
LineOfNumeral(num) ==
  CASE num = <<"7">> -> U32(0, 6)
    [] num = <<"0">> -> U32(0, 0)
    [] num = <<"1">> -> U32(0, 0)
    [] num = <<"1", "0">> -> U32(0, 9)
    [] num = <<"0", "7">> -> U32(0, 6)
    [] num = <<"9">> -> U32(0, 8)
    [] num = <<"3">> -> U32(0, 2)
    [] num = <<"4", "2", "9", "4", "9", "6", "7", "2", "9", "5">> -> U32(65535, 65534)

Numerals ==
  {<<"7">>, <<"0">>, <<"1">>, <<"1", "0">>, <<"0", "7">>, <<"9">>, <<"3">>,
   <<"4", "2", "9", "4", "9", "6", "7", "2", "9", "5">>}

\* C7 as amended: the first "(Line " of the message, or the first "[Ligne " when
\* there is no "(Line ", decides: followed by the decimal digits of N <= 2^32 - 1
\* and the closing delimiter it gives max(N - 1, 0), so 6 for "(Line 7)" and 0
\* for "[Ligne 1]" and "(Line 0)"; no marker gives 0; the line is a u32, never
\* negative, and the range stays on that line.
C7_FirstMarkerDecides ==
  locatorOut # None =>
    LET msg == Message(locatorIn)
        d == locatorOut[1].diagnostic
    IN  /\ ~locatorOut[1].panicked
        /\ d.message = msg
        /\ LocatedLine.hi \in 0..65535 /\ LocatedLine.lo \in 0..65535
        /\ d.range.end.line = LocatedLine
        /\ ( /\ ~Contains(locatorIn.prefix, LineOpen)
             /\ locatorIn.open = LineOpen
             /\ locatorIn.num \in Numerals
             /\ locatorIn.close = <<")">> )
           => LocatedLine = LineOfNumeral(locatorIn.num)
        /\ ( /\ ~Contains(msg, LineOpen)
             /\ ~Contains(locatorIn.prefix, LigneOpen)
             /\ locatorIn.open = LigneOpen
             /\ locatorIn.num \in Numerals
             /\ locatorIn.close = <<"]">> )
           => LocatedLine = LineOfNumeral(locatorIn.num)
        /\ (~Contains(msg, LineOpen) /\ ~Contains(msg, LigneOpen))
           => LocatedLine = U32(0, 0)

\* C7 witness: "[Ligne 3] (Line 0)" has been located at line 0.
C7_Witness ==
  /\ locatorIn.prefix = LigneOpen \o <<"3", "]", " ">>
  /\ locatorIn.open = LineOpen
  /\ locatorIn.num = <<"0">>
  /\ locatorIn.close = <<")">>
  /\ locatorOut # None
  /\ LocatedLine = U32(0, 0)

(***************************************************************************)
(* Properties of the notification handlers                                 *)
(***************************************************************************)
\* C9: every did_open and did_change notification has started exactly one
\* analysis pass, and once the passes have ended there has been exactly one
\* publish per notification.
C9_OnePassPerNotification ==
  /\ Len(passes) = notified
  /\ (\A p \in 1..Len(passes) : Ended(p)) =>
       Cardinality({p \in 1..Len(passes) : Pass(p).pubs = 1}) = notified

\* pass q ended in a CompileError or a ValidationError
Failed(q) ==
  Pass(q).pc = "done" /\ (Pass(q).compiled = "err" \/ Pass(q).loaded = "err")

\* C10: a pass started after a failed pass has returned, on a text that
\* compiles, ends by returning too, having replaced the index and published,
\* with the empty list when the loader accepted the tree.
C10_FailureDoesNotStopLaterPasses ==
  \A p \in 1..Len(passes) :
    ( /\ \E q \in 1..(p - 1) : Failed(q)
      /\ Pass(p).sequential
      /\ Pass(p).compiled = "ok"
      /\ Ended(p) )
    => /\ Pass(p).pc = "done"
       /\ Pass(p).replaced
       /\ Pass(p).pubs = 1
       /\ Pass(p).loaded = "ok" => Pass(p).diagnostics = <<>>

(***************************************************************************)
(* Properties of overlapping passes                                        *)
(***************************************************************************)
\* the walker's output for the tree pass p compiled
SymbolsOf(p) == extract_symbols(Pass(p).ast[1]).symbols

\* the passes whose replace is the most recent one
Latest == {p \in 1..Len(passes) : Pass(p).latest}

\* C11: nothing orders overlapping passes by the recency of their edits.  The
\* index changes only in the replace of some pass and then holds that pass's
\* symbols, whatever the other passes are or have done, so that whenever no
\* replace is under way it holds the symbols of the pass that replaced last;
\* what the client shows for a document changes only in the publish of some
\* pass and is then that pass's diagnostics, whatever the other passes are or
\* have done.
C11_LastReplaceAndLastPublishWin ==
  [][/\ symbols' # symbols =>
          \E p \in 1..Len(passes) :
            Steps(p, "store", "assign") \/ Steps(p, "assign", "load")
     /\ published' # published =>
          \E p \in 1..Len(passes) : Steps(p, "publish", "done")
     /\ \A p \in 1..Len(passes) :
          /\ Steps(p, "assign", "load") =>
               /\ symbols' = SymbolsOf(p)
               /\ Latest' = {p}
          /\ Steps(p, "publish", "done") =>
               published' = [published EXCEPT
                               ![Pass(p).uri] = Some(Pass(p).diagnostics)]
     /\ (writer' = 0 /\ Latest' # {}) =>
          \E p \in Latest' : Latest' = {p} /\ symbols' = SymbolsOf(p)
     /\ (writer' = 0 /\ Latest' = {}) => symbols' = <<>>
    ]_vars

\* C11 witness: two passes for the same document overlapped and both have
\* ended; the index holds the three symbols of the older pass, which replaced
\* last, and the client shows the one diagnostic of the newer pass, which
\* published last.
C11_Witness ==
  /\ Len(passes) = 2
  /\ Pass(1).uri = Pass(2).uri
  /\ ~Pass(2).sequential
  /\ Pass(1).pc = "done" /\ Pass(2).pc = "done"
  /\ Pass(1).replaced /\ Pass(2).replaced
  /\ Latest = {1}
  /\ symbols = SymbolsOf(1)
  /\ Len(symbols) = 3
  /\ SymbolsOf(2) = <<>>
  /\ Pass(1).diagnostics = <<>>
  /\ Len(Pass(2).diagnostics) = 1
  /\ published[Pass(1).uri] = Some(Pass(2).diagnostics)

(***************************************************************************)
(* Properties of completion concurrent with passes                         *)
(***************************************************************************)
\* the symbol part of a response: its items after the sixteen keywords
SymbolPart(response) == SubSeq(response, 17, Len(response))

\* the complete symbol sets an index can hold: the initial empty one and the
\* whole walker output of one pass that has replaced
CompleteSets ==
  {<<>>} \cup {SymbolsOf(p) : p \in {q \in 1..Len(passes) : Pass(q).replaced}}

\* C12: the symbol part of every completion response is the initial empty index
\* or the whole symbol set one single pass wrote, in order, never a partly
\* replaced index.  The write guard is held by one pass at a time, only from
\* the grant to the end of the replace (never while the pass compiles, walks,
\* validates or publishes), and never together with a read guard; read guards
\* are held by requests that have not responded yet, several at a time.
C12_NoPartlyReplacedIndexSeen ==
  /\ \A r \in 1..Len(reqs) :
       reqs[r].response # None =>
         /\ Len(reqs[r].response[1]) >= 16
         /\ SymbolPart(reqs[r].response[1]) \in CompleteSets
  /\ writer # 0 => readers = {}
  /\ writer = 0 => symbols \in CompleteSets
  /\ \A p \in 1..Len(passes) :
       writer = p <=> Pass(p).pc \in {"store", "assign"}
  /\ \A r \in 1..Len(reqs) : r \in readers <=> reqs[r].pc = "extend"

\* C12 witness: the second request has been answered with the three symbols of
\* the pass, whole and in order, while the first request still held its read
\* guard and the pass had not yet validated or published.
C12_Witness ==
  /\ Len(passes) = 1
  /\ Pass(1).pc = "load"
  /\ Len(reqs) = 2
  /\ readers = {1}
  /\ reqs[2].response # None
  /\ Len(reqs[2].response[1]) = 19
  /\ SymbolPart(reqs[2].response[1]) = SymbolsOf(1)
  /\ SymbolPart(reqs[2].response[1]) = extract_symbols(ShadowIf).symbols

\* C13: a pass whose compile succeeded has replaced the index before its
\* loader has run and before it publishes, whether the loader then accepts the
\* tree or not.  Hence a response built after passes have published holds the
\* symbols of the pass that replaced last, which for each published pass that
\* compiled is that pass itself or one that replaced after it.
C13_ReplaceBeforeLoadAndPublish ==
  [][/\ \A p \in 1..Len(passes) :
          /\ Steps(p, "load", "publish") => Pass(p).replaced
          /\ Steps(p, "publish", "done") =>
               (Pass(p).compiled = "ok" =>
                  Pass(p).replaced /\ Pass(p).loaded \in {"ok", "err"})
          /\ passes'[p].loaded # "none" => passes'[p].replaced
          /\ Steps(p, "assign", "load") =>
               Pass(p).loaded = "none" /\ Pass(p).pubs = 0
     /\ \A r \in 1..Len(reqs) :
          (reqs[r].response = None /\ reqs'[r].response # None) =>
            /\ reqs'[r].after = {p \in 1..Len(passes) : Pass(p).pc = "done"}
            /\ \A p \in reqs'[r].after :
                 Pass(p).compiled = "ok" =>
                   \E q \in Latest :
                     /\ Pass(p).replaced
                     /\ Latest = {q}
                     /\ SymbolPart(reqs'[r].response[1]) = SymbolsOf(q)
    ]_vars

\* C13 witness: the first pass, whose loader rejected its three-symbol tree,
\* had published and the second pass had replaced the index by its empty symbol
\* set when the response was built: the response has no symbols.
C13_Witness ==
  /\ Len(passes) = 2
  /\ Len(reqs) = 1
  /\ Pass(1).loaded = "err"
  /\ Len(SymbolsOf(1)) = 3
  /\ Pass(2).compiled = "ok"
  /\ SymbolsOf(2) = <<>>
  /\ reqs[1].response # None
  /\ reqs[1].after = {1}
  /\ reqs[1].epoch = 2
  /\ SymbolPart(reqs[1].response[1]) = <<>>

(***************************************************************************)
(* Properties of the arms of analyze_instruction                           *)
(***************************************************************************)
\* v is an instruction whose tag is one of tags
IsInstruction(v, tags) ==
  /\ v.t = "array"
  /\ Len(v.a) >= 1
  /\ v.a[1].t = "string"
  /\ v.a[1].s \in tags

\* a has a string name as its third element
Named(a) == Len(a) >= 3 /\ a[3].t = "string"

\* a descriptor with the fields the specification gives it
Descriptor(label, kind, detail, template) ==
  [label |-> label, kind |-> kind, detail |-> <<detail>>,
   insert_text |-> IF template = "" THEN <<>> ELSE <<template>>,
   insert_text_format |-> IF template = "" THEN <<>> ELSE <<"SNIPPET">>]

\* C14: for a function instruction the walker gives, when the third element
\* is a string name, one Function descriptor with detail "Function" and
\* insertion template "<name>($0)", followed by the symbols of the body at the
\* sixth element and by nothing else; the body is walked also when the name is
\* absent, no other argument is walked, and the walker fails exactly when the
\* walk of the body does.  ["function", 2, "add", [], "int", ["set", 3, "y", 0]]
\* gives Function add (template "add($0)"), then Variable y.
C14_FunctionThenBody ==
  (walkerOut # None /\ IsInstruction(walkerIn, {"function"})) =>
    LET a == walkerIn.a
        own == IF Named(a)
               THEN <<Descriptor(a[3].s, "FUNCTION", "Function", a[3].s \o "($0)")>>
               ELSE <<>>
        body == IF Len(a) >= 6 THEN extract_symbols(a[6]) ELSE Returned(<<>>)
    IN  /\ walkerOut[1].panicked = body.panicked
        /\ ~body.panicked => walkerOut[1].symbols = own \o body.symbols
        /\ walkerIn = FunctionAdd =>
             walkerOut[1].symbols =
               <<Descriptor("add", "FUNCTION", "Function", "add($0)"),
                 Descriptor("y", "VARIABLE", "Variable", "")>>

\* C14 witness: a function without a name, whose fourth element and body both
\* declare z, z and z: the walker has returned the three symbols of the body
\* only.
C14_Witness ==
  /\ walkerIn = Instruction("function", Num(0), TwiceZ, TwiceZ, 6)
  /\ walkerOut # None
  /\ ~walkerOut[1].panicked
  /\ walkerOut[1].symbols = extract_symbols(TwiceZ).symbols
  /\ Len(walkerOut[1].symbols) = 3

RECURSIVE SymbolsFrom(_, _)

\* the symbols of elements i, i+1, ... of a sequence, left to right
SymbolsFrom(a, i) ==
  IF i > Len(a) THEN <<>>
  ELSE extract_symbols(a[i]).symbols \o SymbolsFrom(a, i + 1)

\* the walker fails on some element of a from the i-th onward
FailsFrom(a, i) == \E j \in i..Len(a) : extract_symbols(a[j]).panicked

\* C15: for an if, while or for_range instruction none of whose arguments
\* from the third element onward makes the walker fail, the walker returns, in
\* order, the symbols of every argument from the third element onward and no
\* descriptor of its own.  ["if", 1, cond, [["set", 2, "z", 0]],
\* [["set", 3, "w", 0]]] gives z, then w.
C15_ControlAppendsArguments ==
  ( /\ walkerOut # None
    /\ IsInstruction(walkerIn, {"if", "while", "for_range"})
    /\ ~FailsFrom(walkerIn.a, 3) )
  => /\ ~walkerOut[1].panicked
     /\ walkerOut[1].symbols = SymbolsFrom(walkerIn.a, 3)
     /\ walkerIn = IfBoth =>
          walkerOut[1].symbols =
            <<Descriptor("z", "VARIABLE", "Variable", ""),
              Descriptor("w", "VARIABLE", "Variable", "")>>

\* the tags under which analyze_instruction emits or walks anything
WalkedTags == {"set", "function", "class", "namespace", "if", "while", "for_range"}

\* C16: the walker does not descend into a class, into the value of a set, or
\* into anything it does not recognise.  A class instruction gives only its
\* Class descriptor and a set instruction only its Variable descriptor, each
\* only when the third element is a string name; an instruction with any
\* other tag, an empty node and a leaf that is not a sequence give no symbols,
\* whatever declarations are nested inside; on none of these the walker fails.
C16_NoDescentElsewhere ==
  walkerOut # None =>
    LET out == walkerOut[1]
    IN  /\ IsInstruction(walkerIn, {"class"}) =>
             /\ ~out.panicked
             /\ out.symbols =
                  IF Named(walkerIn.a)
                  THEN <<Descriptor(walkerIn.a[3].s, "CLASS", "Class", "")>>
                  ELSE <<>>
        /\ IsInstruction(walkerIn, {"set"}) =>
             /\ ~out.panicked
             /\ out.symbols =
                  IF Named(walkerIn.a)
                  THEN <<Descriptor(walkerIn.a[3].s, "VARIABLE", "Variable", "")>>
                  ELSE <<>>
        /\ IsInstruction(walkerIn, Tags \ WalkedTags) =>
             ~out.panicked /\ out.symbols = <<>>
        /\ (walkerIn.t # "array" \/ walkerIn = Arr(<<>>)) =>
             ~out.panicked /\ out.symbols = <<>>

\* C16 witness: a class named x whose fourth and sixth elements each declare
\* z, z and z: the walker has returned the Class descriptor of x alone.
C16_Witness ==
  /\ walkerIn = Instruction("class", Str("x"), TwiceZ, TwiceZ, 6)
  /\ walkerOut # None
  /\ walkerOut[1] = Returned(<<Descriptor("x", "CLASS", "Class", "")>>)
  /\ extract_symbols(TwiceZ).symbols # <<>>

(***************************************************************************)
(* Properties of the marker chain of parse_error_message                   *)
(***************************************************************************)
RECURSIVE After(_, _)
RECURSIVE Before(_, _)

\* what follows the first occurrence of pat in a message that contains pat
After(msg, pat) ==
  IF SubSeq(msg, 1, Len(pat)) = pat THEN SubSeq(msg, Len(pat) + 1, Len(msg))
  ELSE After(Tail(msg), pat)

\* what precedes the first occurrence of the character c in a text that has c
Before(rest, c) ==
  IF rest[1] = c THEN <<>> ELSE <<rest[1]>> \o Before(Tail(rest), c)

\* the line an opening marker gives when rest follows it and c closes it: 0
\* without a c in rest, max(N - 1, 0) when the text before the first c is the
\* numeral of N <= 2^32 - 1, with or without a leading "+", and 0 for any
\* other text
LineDecided(rest, c) ==
  IF \A i \in 1..Len(rest) : rest[i] # c THEN U32(0, 0)
  ELSE LET enclosed == Before(rest, c)
       IN  IF enclosed \in Numerals THEN LineOfNumeral(enclosed)
           ELSE IF enclosed = <<"+", "7">> THEN U32(0, 6)
           ELSE U32(0, 0)

\* C17: the first "(Line " of a message, wherever it stands, decides the line
\* alone; the first "[Ligne " decides only in a message without "(Line ".
\* The deciding marker gives line 0 when no closing delimiter follows it or
\* when the enclosed text is not an unsigned integer of 32 bits, and the other
\* marker is not tried then; a message with neither marker gives 0.
C17_LineMarkerHasPriority ==
  locatorOut # None =>
    LET msg == Message(locatorIn)
    IN  /\ ~locatorOut[1].panicked
        /\ LocatedLine =
             IF Contains(msg, LineOpen)
             THEN LineDecided(After(msg, LineOpen), ")")
             ELSE IF Contains(msg, LigneOpen)
             THEN LineDecided(After(msg, LigneOpen), "]")
             ELSE U32(0, 0)

\* C17 witness: "[Ligne 3] (Line x)" has been located at line 0, although its
\* "[Ligne 3]" alone would give line 2.
C17_Witness ==
  /\ locatorIn.prefix = LigneOpen \o <<"3", "]", " ">>
  /\ locatorIn.open = LineOpen
  /\ locatorIn.num = <<"x">>
  /\ locatorIn.close = <<")">>
  /\ locatorIn.suffix = <<>>
  /\ locatorOut # None
  /\ LocatedLine = U32(0, 0)
  /\ parse_error_message(locatorIn.prefix).diagnostic.range.start.line = U32(0, 2)

(***************************************************************************)
(* Properties of completion requests across documents                      *)
(***************************************************************************)
\* the requests that have been answered
Answered == {r \in 1..Len(reqs) : reqs[r].response # None}

\* C18: a completion request changes nothing but its own progress: neither
\* its arrival nor its response changes the index, what the client shows, any
\* pass or the write guard; and two responses built with no replace completed
\* between them are identical, whatever document and cursor position the
\* requests named.
C18_CompletionChangesNothing ==
  [][/\ reqs' # reqs =>
          /\ symbols' = symbols
          /\ published' = published
          /\ passes' = passes
          /\ writer' = writer
          /\ notified' = notified
     /\ \A r1 \in Answered', r2 \in Answered' :
          reqs'[r1].epoch = reqs'[r2].epoch =>
            reqs'[r1].response = reqs'[r2].response
    ]_vars

\* C18 witness: two requests naming different documents have both been answered
\* after the one replace, with the same nineteen items, and the index still
\* holds the three symbols.
C18_Witness ==
  /\ Len(reqs) = 2
  /\ Answered = {1, 2}
  /\ reqs[1].uri # reqs[2].uri
  /\ reqs[1].epoch = 1 /\ reqs[2].epoch = 1
  /\ reqs[1].response = reqs[2].response
  /\ Len(reqs[1].response[1]) = 19
  /\ Len(symbols) = 3
  /\ published = [u \in Uris |-> None]

\* C19: there is one index for all documents.  The replace of a pass puts its
\* symbols into the index whatever document the pass is for, and a response
\* built afterwards carries the symbols of the pass that replaced last whatever
\* document the request names, the same or another; the publish of a pass
\* changes what the client shows for the document of that pass only.
C19_OneIndexForAllDocuments ==
  [][/\ \A p \in 1..Len(passes) :
          /\ Steps(p, "assign", "load") => symbols' = SymbolsOf(p)
          /\ Steps(p, "publish", "done") =>
               /\ published'[Pass(p).uri] = Some(Pass(p).diagnostics)
               /\ \A u \in Uris \ {Pass(p).uri} : published'[u] = published[u]
     /\ \A r \in 1..Len(reqs) :
          (reqs[r].response = None /\ reqs'[r].response # None) =>
            \A q \in Latest :
              /\ reqs[r].uri \in Uris
              /\ Pass(q).uri \in Uris
              /\ SymbolPart(reqs'[r].response[1]) = SymbolsOf(q)
    ]_vars

\* C19 witness: the only pass, for document b, has replaced the index by three
\* symbols and published; a request naming document a, answered afterwards,
\* has these three symbols, and the client shows diagnostics for b only.
C19_Witness ==
  /\ Len(passes) = 1
  /\ Pass(1).uri = "file:///b.aegis"
  /\ Pass(1).pc = "done"
  /\ Pass(1).replaced
  /\ Len(SymbolsOf(1)) = 3
  /\ \E r \in Answered :
       /\ reqs[r].uri = "file:///a.aegis"
       /\ reqs[r].after = {1}
       /\ SymbolPart(reqs[r].response[1]) = SymbolsOf(1)
  /\ published["file:///b.aegis"] = Some(Pass(1).diagnostics)
  /\ published["file:///a.aegis"] = None

====
